---- MODULE Spec2Model ----
(***************************************************************************)
(* Model of kaedenn.gcc: the diagnostic line parser (gcc/parser.py), the   *)
(* beautifier (gcc/beautifier.py) and the formatter (gcc/formatter.py).    *)
(*                                                                         *)
(* Python strings are TLA+ strings; positions are 1-based here, so Python  *)
(* s[a:b] is SubSeq(s, a + 1, b).  Two characters have a stand-in because  *)
(* the module is ASCII: LQ is U+2018 and RQ is U+2019, the typographic     *)
(* quotes g++ puts around code.  ESC stands for the byte \033.             *)
(***************************************************************************)
EXTENDS Integers, Sequences, FiniteSets, TLC

LQ == "#"
RQ == "$"
ESC == "^"

(***************************************************************************)
(* Python str and re primitives used by the source.                        *)
(***************************************************************************)
\* s[i - 1 : i]: the character at position i, "" outside the string
Ch(s, i) == IF 1 <= i /\ i <= Len(s) THEN SubSeq(s, i, i) ELSE ""

\* s[i - 1 : j] with Python's clamping of the bounds
Slice(s, i, j) ==
  LET lo == IF i < 1 THEN 1 ELSE i
      hi == IF j > Len(s) THEN Len(s) ELSE j
  IN  IF lo > hi THEN "" ELSE SubSeq(s, lo, hi)

Whitespace == {" ", "\t", "\n", "\r", "\f"}

Digits == {"0", "1", "2", "3", "4", "5", "6", "7", "8", "9"}

Letters == {"a", "b", "c", "d", "e", "f", "g", "h", "i", "j", "k", "l", "m",
            "n", "o", "p", "q", "r", "s", "t", "u", "v", "w", "x", "y", "z",
            "A", "B", "C", "D", "E", "F", "G", "H", "I", "J", "K", "L", "M",
            "N", "O", "P", "Q", "R", "S", "T", "U", "V", "W", "X", "Y", "Z"}

HexLetters == {"a", "b", "c", "d", "e", "f", "A", "B", "C", "D", "E", "F"}

\* The operators below recurse once per match, separator or bracket and find
\* the next one with First, never once per character; and a recursive call
\* takes its arguments from singleton sets ("x \in {e}"), which binds x to
\* the value of e rather than to the expression.  Both keep the depth of
\* evaluation small on lines of a hundred characters and more.

\* the least element of the set of positions S, none if S is empty
First(S, none) ==
  IF S = {} THEN none ELSE CHOOSE j \in S : \A k \in S : j <= k

\* the greatest element of the set of positions S, none if S is empty
Last(S, none) ==
  IF S = {} THEN none ELSE CHOOSE j \in S : \A k \in S : j >= k

\* F(v) with v evaluated once, before F is applied
Bind(v, F(_)) == CHOOSE r \in {F(x) : x \in {v}} : TRUE

\* s.startswith(pat, i - 1)
StartsAt(s, i, pat) ==
  /\ i + Len(pat) - 1 <= Len(s)
  /\ SubSeq(s, i, i + Len(pat) - 1) = pat

StartsWith(s, pat) == StartsAt(s, 1, pat)

\* s.find(pat, i - 1) + 1: the first position >= i where pat occurs, 0 if none
Find(s, pat, i) ==
  LET last == Len(s) - Len(pat) + 1
      j == First({k \in i..last : StartsAt(s, k, pat)}, last + 1)
  IN  IF j > last THEN 0 ELSE j

\* pat in s
Contains(s, pat) == Find(s, pat, 1) # 0

\* s.replace(old, new) for a non-empty old, from position i on: the leftmost
\* non-overlapping occurrences
RECURSIVE ReplaceFrom(_, _, _, _)
ReplaceFrom(s, old, new, i) ==
  LET p == Find(s, old, i) IN
  IF p = 0 THEN Slice(s, i, Len(s))
  ELSE Slice(s, i, p - 1) \o new
       \o (CHOOSE r \in {ReplaceFrom(s, old, new, q) : q \in {p + Len(old)}} : TRUE)

\* new before every character of s[lo - 1 : hi]
RECURSIVE Interleave(_, _, _, _)
Interleave(s, new, lo, hi) ==
  IF lo > hi THEN ""
  ELSE IF lo = hi THEN new \o Ch(s, lo)
  ELSE Interleave(s, new, lo, (lo + hi) \div 2)
       \o Interleave(s, new, (lo + hi) \div 2 + 1, hi)

\* s.replace(old, new); an empty old matches before every character and at
\* the end
Replace(s, old, new) ==
  IF old = "" THEN Interleave(s, new, 1, Len(s)) \o new
  ELSE ReplaceFrom(s, old, new, 1)

\* s.strip()
Strip(s) ==
  LET a == First({k \in 1..Len(s) : Ch(s, k) \notin Whitespace}, Len(s) + 1)
      b == Last({k \in 1..Len(s) : Ch(s, k) \notin Whitespace}, 0)
  IN  IF a > Len(s) THEN "" ELSE SubSeq(s, a, b)

\* sep.join(parts)
RECURSIVE Join(_, _)
Join(sep, parts) ==
  IF Len(parts) = 0 THEN ""
  ELSE IF Len(parts) = 1 THEN parts[1]
  ELSE parts[1] \o sep \o Join(sep, Tail(parts))

\* parts[n:]
Drop(parts, n) ==
  IF n >= Len(parts) THEN << >> ELSE SubSeq(parts, n + 1, Len(parts))

\* s.split(sep) for a one-character sep, from position start on
RECURSIVE SplitChar(_, _, _)
SplitChar(s, sep, start) ==
  LET p == Find(s, sep, start) IN
  IF p = 0 THEN << Slice(s, start, Len(s)) >>
  ELSE << Slice(s, start, p - 1) >>
       \o (CHOOSE r \in {SplitChar(s, sep, q) : q \in {p + 1}} : TRUE)

\* the length of the longest run of characters of cs that starts at i
Run(s, i, cs) == First({k \in i..Len(s) : Ch(s, k) \notin cs}, Len(s) + 1) - i

\* the length of the longest run of characters outside cs that starts at i
RunNot(s, i, cs) == First({k \in i..Len(s) : Ch(s, k) \in cs}, Len(s) + 1) - i

\* s.split(), from position i on: the maximal runs of non-whitespace
RECURSIVE Words(_, _)
Words(s, i) ==
  LET a == i + Run(s, i, Whitespace)
      n == RunNot(s, a, Whitespace)
  IN  IF a > Len(s) THEN << >>
      ELSE << SubSeq(s, a, a + n - 1) >>
           \o (CHOOSE r \in {Words(s, q) : q \in {a + n}} : TRUE)

\* the regex anchor $ at position i: the end of the string, or just before a
\* newline that ends the string
AtEnd(s, i) == i > Len(s) \/ (i = Len(s) /\ Ch(s, i) = "\n")

\* int(s) for a string of decimal digits
RECURSIVE DigitsValue(_, _)
DigitsValue(s, j) ==
  IF j < 1 THEN 0
  ELSE 10 * DigitsValue(s, j - 1)
       + (CHOOSE d \in 0..9 : Ch(s, j) = Ch("0123456789", d + 1))

AllDigits(s) == Len(s) > 0 /\ Run(s, 1, Digits) = Len(s)

(***************************************************************************)
(* gcc/parser.py: class Parser                                             *)
(***************************************************************************)
LT_ERROR == 1
LT_WARNING == 2
LT_MESSAGE == 3
LT_NOTE == 4
\* Python's None, as the value of the "type" attribute
None == 0

\* the attributes dictionary Parser.__init__ builds, which has no "sys_file" key
InitAttributes(line) ==
  [raw |-> line, type |-> None, file |-> "", line |-> -1, column |-> -1,
   message |-> [raw |-> "", codelist |-> << >>]]

\* the instance state Parser.__init__ sets up that parse_line reads and writes
NewParser(line) == [line |-> line, attributes |-> InitAttributes(line)]

\* d[k] = v on a dictionary
SetKey(d, k, v) == (k :> v) @@ d

\* a match of _line_group_sep at position i: a colon with no colon on either
\* side, or a comma at the end
IsSep(s, i) ==
  \/ /\ Ch(s, i) = ":"
     /\ (i = 1 \/ Ch(s, i - 1) # ":")
     /\ (i = Len(s) \/ Ch(s, i + 1) # ":")
  \/ /\ Ch(s, i) = ","
     /\ AtEnd(s, i + 1)

\* re.split(self._line_group_sep, s), from position start on
RECURSIVE SplitSep(_, _)
SplitSep(s, start) ==
  LET p == First({k \in start..Len(s) : IsSep(s, k)}, Len(s) + 1) IN
  IF p > Len(s) THEN << Slice(s, start, Len(s)) >>
  ELSE << Slice(s, start, p - 1) >>
       \o (CHOOSE r \in {SplitSep(s, q) : q \in {p + 1}} : TRUE)

\* re.match(self._line_groups["file"], s)
MatchFile(s) == Len(s) > 0 /\ Ch(s, 1) \notin {":", " "}

\* the end of the match of _line_groups["sys_file"] that starts at i (the
\* position after its last character), 0 if there is no match at i
SysFileEnd(s, i) ==
  LET j == i + Len("/usr/include/")
      c == Find(s, ":", j)
      d == Run(s, c + 1, Digits)
      e == c + 1 + d
  IN  IF ~StartsAt(s, i, "/usr/include/") \/ c = 0 \/ c = j THEN 0
      ELSE IF d = 0 THEN c + 1
      ELSE IF StartsAt(s, e, ": ") THEN e + 2
      ELSE IF Ch(s, e) = "," /\ AtEnd(s, e + 1) THEN e + 1
      ELSE e

\* re.match(self._line_groups["sys_file"], s)
MatchSysFile(s) == SysFileEnd(s, 1) # 0

\* re.match(self._line_groups["linker"], s)
MatchLinker(s) ==
  LET word == Letters \cup Digits \cup {"_"}
      hex == HexLetters \cup Digits \cup {"_"}
      n == Run(s, 3, word)
      m == Run(s, 6 + n, hex)
  IN  /\ StartsAt(s, 1, "(.")
      /\ n > 0
      /\ StartsAt(s, 3 + n, "+0x")
      /\ m > 0
      /\ Ch(s, 6 + n + m) = ")"

\* re.match of _line_groups["line"] and of _line_groups["column"]
MatchNumber(s) == Len(s) > 0 /\ Ch(s, 1) \in Digits

\* re.match(self._line_groups["message"], s)
MatchMessage(s) == Len(s) > 0 /\ Ch(s, 1) # "\n"

\* re.findall(self._message_groups["code"], m), scanning from position i
RECURSIVE CodeSpans(_, _)
CodeSpans(m, i) ==
  LET p == Find(m, LQ, i)
      q == Find(m, RQ, p + 1)
  IN  IF p = 0 \/ q = 0 THEN << >>
      ELSE CHOOSE r \in
             {IF q = p + 1 THEN CodeSpans(m, n) ELSE << SubSeq(m, p, q) >> \o CodeSpans(m, n) :
                n \in {IF q = p + 1 THEN p + 1 ELSE q + 1}} : TRUE

\* the list attributes["codelist"] of _parse_message, given the quoted spans
\* codes that re.findall returns
Codelist(segments, codes) ==
  IF Len(codes) > 0
  THEN [i \in 1..Len(codes) |-> [raw |-> SubSeq(codes[i], 2, Len(codes[i]) - 1)]]
  ELSE IF Len(segments) > 0
  THEN IF segments[1] = "candidates are"
       THEN << [raw |-> Join(":", Drop(segments, 1))] >>
       ELSE << [raw |-> Join(":", segments)] >>
  ELSE << >>

\* the dictionary _parse_message returns for the joined message
MessageAttributes(segments, message) ==
  [raw |-> message, codelist |-> Codelist(segments, CodeSpans(message, 1))]

\* Parser._parse_message
Parser_parse_message(segments) ==
  MessageAttributes(segments, Join(": ", segments))

\* Parser._next_token; a token is << t >> and Python's None is << >>
DepthZero == [c \in {"<", "[", "{", "("} |-> 0]

\* Ends with every closer counted against "<"
EndsAngle == [c \in {">", "]", "}", ")"} |-> "<"]

\* ends = {">": "<", "]": "[", "}": "{", ")": "("}
Ends == [c \in {">", "]", "}", ")"} |->
           CASE c = ">" -> "<" [] c = "]" -> "[" [] c = "}" -> "{" [] c = ")" -> "("]

\* the characters on which the scanning loops act
Special == {",", "=", "<", "[", "{", "(", ">", "]", "}", ")"}

\* the loop of _next_token from position i on, resumed at the next character
\* that can end the token or change a counter
RECURSIVE NextTokenScan(_, _, _, _)
NextTokenScan(line, begin, i, depth) ==
  LET j == First({k \in i..Len(line) : Ch(line, k) \in Special}, Len(line) + 1)
      c == Ch(line, j)
  IN  IF j > Len(line) THEN << >>
      ELSE IF c \in {",", "="} /\ \A k \in DOMAIN depth : depth[k] = 0
           THEN << Strip(Slice(line, begin, j - 1)) >>
      ELSE IF c \in DOMAIN Ends /\ depth[Ends[c]] - 1 < 0 THEN << >>
      ELSE CHOOSE r \in
             {NextTokenScan(line, begin, n, d) :
                n \in {j + 1},
                d \in {IF c \in DOMAIN depth THEN [depth EXCEPT ![c] = @ + 1]
                       ELSE IF c \in DOMAIN Ends
                       THEN [depth EXCEPT ![Ends[c]] = @ - 1]
                       ELSE depth}} : TRUE

\* begin is the Python offset: line[begin:] starts at position begin + 1
next_token(line, begin) == NextTokenScan(line, begin + 1, begin + 1, DepthZero)

(***************************************************************************)
(* gcc/beautifier.py: the with-statement resolver and the message hook     *)
(***************************************************************************)
\* the leftmost match of _with_stmt at or after position i: start and end are
\* the positions of its "[" and "]" (start = 0 if there is none) and body is
\* the group "with"
RECURSIVE WithStmtMatch(_, _)
WithStmtMatch(code, i) ==
  LET p == Find(code, "[with", i)
      k == Run(code, p + 5, Whitespace)
      e == Find(code, "]", p + 5)
  IN  IF p = 0 \/ e = 0 THEN [start |-> 0, end |-> 0, body |-> ""]
      ELSE IF p + 5 + k < e
           THEN [start |-> p, end |-> e, body |-> SubSeq(code, p + 5 + k, e - 1)]
      ELSE IF k > 0
           THEN [start |-> p, end |-> e, body |-> SubSeq(code, e - 1, e - 1)]
      ELSE CHOOSE r \in {WithStmtMatch(code, q) : q \in {p + 1}} : TRUE

\* re.sub(self._with_stmt, "", s), from position i on
RECURSIVE SubWithStmt(_, _)
SubWithStmt(s, i) ==
  LET m == WithStmtMatch(s, i) IN
  IF m.start = 0 THEN Slice(s, i, Len(s))
  ELSE Slice(s, i, m.start - 1)
       \o (CHOOSE r \in {SubWithStmt(s, q) : q \in {m.end + 1}} : TRUE)

\* the loop of Beautifier._parse_with_stmts over stmt + ",", resumed at the
\* next character that can end an entry or change a counter: exc names the
\* exception the tuple unpacking of split("=") raises, "" if none
RECURSIVE WithStmtScan(_, _, _, _, _)
WithStmtScan(stmt, i, begin, depth, tokens) ==
  LET text == stmt \o ","
      j == First({k \in i..Len(text) : Ch(text, k) \in Special}, Len(text) + 1)
      c == Ch(text, j)
      end == c = "," /\ \A k \in DOMAIN depth : depth[k] = 0
      parts == SplitChar(Slice(stmt, begin, j - 1), "=", 1)
  IN  IF j > Len(text) THEN [exc |-> "", tokens |-> tokens]
      ELSE IF end /\ Len(parts) # 2 THEN [exc |-> "ValueError", tokens |-> tokens]
      ELSE CHOOSE r \in
             {WithStmtScan(stmt, n, b, d, t) :
                n \in {j + 1},
                b \in {IF end THEN j + 1 ELSE begin},
                d \in {IF end THEN depth
                       ELSE IF c \in DOMAIN depth THEN [depth EXCEPT ![c] = @ + 1]
                       ELSE IF c \in DOMAIN Ends
                       THEN [depth EXCEPT ![Ends[c]] = @ - 1]
                       ELSE depth},
                t \in {IF end
                       THEN Append(tokens, << Strip(parts[1]), Strip(parts[2]) >>)
                       ELSE tokens}} : TRUE

\* Beautifier._parse_with_stmts
parse_with_stmts(code) ==
  LET match == WithStmtMatch(code, 1) IN
  IF match.start = 0 THEN [exc |-> "", tokens |-> << >>]
  ELSE WithStmtScan(match.body, 1, 1, DepthZero, << >>)

\* the loop of Beautifier._parse_message: w[i] is what _parse_with_stmts gives
\* for the i-th code, and the first exception leaves the method
WithTokens(attributes, w) ==
  IF \E i \in DOMAIN w : w[i].exc # ""
  THEN [exc |-> "ValueError", value |-> attributes]
  ELSE [exc |-> "",
        value |-> [attributes EXCEPT !.codelist =
                     [i \in DOMAIN w |->
                        [raw |-> attributes.codelist[i].raw,
                         with_tokens |-> w[i].tokens]]]]

AddWithTokens(attributes) ==
  WithTokens(attributes,
             [i \in 1..Len(attributes.codelist) |->
                parse_with_stmts(attributes.codelist[i].raw)])

\* Beautifier._parse_message
Beautifier_parse_message(segments) ==
  AddWithTokens(Parser_parse_message(segments))

\* self._parse_message(segments), dispatched on the class of the instance
parse_message(cls, segments) ==
  IF cls = "Beautifier" THEN Beautifier_parse_message(segments)
  ELSE [exc |-> "", value |-> Parser_parse_message(segments)]

(***************************************************************************)
(* gcc/parser.py: Parser.parse_line.  Every branch of the method ends with *)
(* at most one call of self._parse_message, its last statement: a branch   *)
(* is modelled by the attributes it has assigned, the exception it raises  *)
(* (exc, "" if none) and the segments it gives to _parse_message (message, *)
(* << >> if it does not call it).                                          *)
(***************************************************************************)
Return(a) == [exc |-> "", attributes |-> a, message |-> << >>]

Raise(e, a) == [exc |-> e, attributes |-> a, message |-> << >>]

Message(a, segments) == [exc |-> "", attributes |-> a, message |-> << segments >>]

\* the branch of parse_line for a segment 1 that starts with digits
ParseNumbered(a0, segments) ==
  LET n == Len(segments)
      a1 == [a0 EXCEPT !["line"] = DigitsValue(segments[2], Len(segments[2]))]
      aE == [a1 EXCEPT !["type"] = LT_ERROR]
  IN  IF ~AllDigits(segments[2]) THEN Raise("ValueError", a0)
      ELSE IF (\E i \in 1..n : segments[i] = "error") /\ n > 2
      THEN IF segments[3] = "error" THEN Message(aE, Drop(segments, 3))
           ELSE IF n < 4 THEN Raise("IndexError", aE)
           ELSE IF segments[4] = "error"
           THEN IF MatchNumber(segments[3])
                THEN IF ~AllDigits(segments[3]) THEN Raise("ValueError", aE)
                     ELSE Message([aE EXCEPT !["column"] =
                                     DigitsValue(segments[3], Len(segments[3]))],
                                  Drop(segments, 4))
                ELSE Message(aE, Drop(segments, 4))
           ELSE Return(aE)
      ELSE IF n < 3 THEN Raise("IndexError", a1)
      ELSE IF segments[3] = "warning"
      THEN Message([a1 EXCEPT !["type"] = LT_WARNING], Drop(segments, 3))
      ELSE IF segments[3] = "note"
      THEN Message([a1 EXCEPT !["type"] = LT_NOTE], Drop(segments, 3))
      ELSE Message([a1 EXCEPT !["type"] = LT_NOTE], Drop(segments, 2))

\* the branch of parse_line for a segment 0 that matches "file", once "file"
\* and "sys_file" are assigned
ParseLocated(a, segments) ==
  IF MatchLinker(segments[2])
  THEN Message([a EXCEPT !["type"] = LT_WARNING], Drop(segments, 2))
  ELSE IF MatchNumber(segments[2]) THEN ParseNumbered(a, segments)
  ELSE IF MatchMessage(segments[2])
  THEN Message([a EXCEPT !["type"] = LT_NOTE], Drop(segments, 1))
  ELSE Return(a)

\* the rewriting of segment 0 of an inclusion line
Included(segment) ==
  IF Contains(segment, "In file included from")
  THEN Join("", Drop(Words(segment, 1), 4))
  ELSE IF Slice(segment, 1, 4) = "from" THEN Slice(segment, 6, Len(segment))
  ELSE segment

\* the branches on segment 0 of a line of two segments or more
ParseFile(a, segments) ==
  IF segments[1] = "collect2" THEN Return([a EXCEPT !["type"] = LT_MESSAGE])
  ELSE IF MatchFile(segments[1])
  THEN ParseLocated(SetKey([a EXCEPT !["file"] = segments[1]], "sys_file",
                           MatchSysFile(segments[1])),
                    segments)
  ELSE Return(a)

\* the branches on the number of segments
ParseSegments(a, segments) ==
  IF Len(segments) = 0 THEN Return(a)
  ELSE IF Len(segments) = 1
  THEN Message([a EXCEPT !["file"] = "<unknown>", !["type"] = LT_NOTE], segments)
  ELSE ParseFile(a, [segments EXCEPT ![1] = Included(segments[1])])

\* self._attributes["message"] = self._parse_message(segments), which a
\* branch ends with
SetMessage(a, pm) ==
  IF pm.exc # "" THEN [exc |-> pm.exc, attributes |-> a]
  ELSE [exc |-> "", attributes |-> [a EXCEPT !["message"] = pm.value]]

EndBranch(cls, branch) ==
  IF branch.message = << >>
  THEN [exc |-> branch.exc, attributes |-> branch.attributes]
  ELSE SetMessage(branch.attributes, parse_message(cls, branch.message[1]))

\* [s.strip() for s in re.split(self._line_group_sep, self._line)]
Segments(line) ==
  Bind(SplitSep(line, 1),
       LAMBDA split : [i \in 1..Len(split) |-> Strip(split[i])])

\* parse_line from "self._attributes["raw"] = self._line" on, for the
\* stripped line
ParseStripped(cls, attributes, line) ==
  Bind(Segments(line),
       LAMBDA segments :
         Bind(ParseSegments([attributes EXCEPT !["raw"] = line], segments),
              LAMBDA branch : EndBranch(cls, branch)))

\* Parser.parse_line on the instance state self: exc names the exception it
\* raises ("" if it returns), self is the instance state it leaves; the value
\* it returns is the dictionary self.attributes itself
parse_line(cls, self, line) ==
  Bind(Strip(IF line # "" /\ line # self.line THEN line ELSE self.line),
       LAMBDA stripped :
         Bind(ParseStripped(cls, self.attributes, stripped),
              LAMBDA parsed :
                [exc |-> parsed.exc,
                 self |-> [line |-> stripped, attributes |-> parsed.attributes]]))

(***************************************************************************)
(* gcc/beautifier.py: class Beautifier                                     *)
(***************************************************************************)
LV_NONE == 0
LV_NORMAL == 1
LV_MODERATE == 2
LV_HIGH == 3
LV_ALL == 4
\* the default of the width parameter of Beautifier.__init__
Width == 72

\* self._str_types, in the order of the dictionary display.  The patterns are
\* pairwise non-overlapping, so the order of iteration shows only on text in
\* which one replacement completes another pattern.
str_types ==
  << << "basic_ios<%s, char_traits<%s>>", "ios" >>,
     << "basic_streambuf<%s, char_traits<%s>>", "streambuf" >>,
     << "basic_istream<%s, char_traits<%s>>", "istream" >>,
     << "basic_ostream<%s, char_traits<%s>>", "ostream" >>,
     << "basic_iostream<%s, char_traits<%s>>", "iostream" >>,
     << "basic_ifstream<%s, char_traits<%s>>", "ifstream" >>,
     << "basic_ofstream<%s, char_traits<%s>>", "ofstream" >>,
     << "basic_fstream<%s, char_traits<%s>>", "fstream" >>,
     << "basic_istringstream<%s, char_traits<%s>, allocator<%s>>", "istringstream" >>,
     << "basic_ostringstream<%s, char_traits<%s>, allocator<%s>>", "ostringstream" >>,
     << "basic_stringstream<%s, char_traits<%s>, allocator<%s>>", "stringstream" >>,
     << "basic_string<%s, char_traits<%s>, allocator<%s>>", "string" >> >>

char_types == << "char", "wchar_t" >>

\* self._replacements[container]
replacements ==
  [container \in {"vector", "list", "queue", "deque", "stack", "set"} |->
     CASE container = "vector" ->
            << << "vector<%s, allocator<%s>>", "vector<%s>" >>,
               << "typename vector<%s>::value_type", "%s" >> >>
       [] container = "list" ->
            << << "list<%s, allocator<%s>>", "list<%s>" >>,
               << "typename list<%s>::value_type", "%s" >> >>
       [] container = "queue" ->
            << << "queue<%s, deque<%s>>", "queue<%s>" >>,
               << "typename queue<%s>::value_type", "%s" >> >>
       [] container = "deque" ->
            << << "deque<%s, allocator<%s>>", "deque<%s>" >>,
               << "typename deque<%s>::value_type", "%s" >> >>
       [] container = "stack" ->
            << << "stack<%s, deque<%s>>", "stack<%s>" >>,
               << "typename stack<%s>::value_type", "%s" >> >>
       [] container = "set" ->
            << << "set<%s, less<%s>, allocator<%s>>", "set<%s>" >>,
               << "typename set<%s>::value_type", "%s" >> >>]

\* The order in which "for container in self._replacements" visits the keys
\* is left to the interpreter: the order of the dictionary display where
\* dictionaries keep insertion order (CPython 3.7 and later), the order of the
\* slots of the hash table in CPython 2.7.
DictOrders ==
  { << "vector", "list", "queue", "deque", "stack", "set" >>,
    << "deque", "set", "list", "queue", "vector", "stack" >> }

\* Beautifier.__init__
NewBeautifier(line, level, wrap) ==
  [line |-> line, attributes |-> InitAttributes(line), level |-> level,
   width |-> Width, result |-> line, wrapper |-> wrap]

\* the two loops of Beautifier._compact_typedefs, from entry t and char type c
RECURSIVE CompactFrom(_, _, _)
CompactFrom(message, t, c) ==
  IF t > Len(str_types) THEN message
  ELSE IF c > Len(char_types) THEN CompactFrom(message, t + 1, 1)
  ELSE LET tp == Replace(str_types[t][1], "%s", char_types[c])
           r == IF Ch(char_types[c], 1) = "w"
                THEN "w" \o str_types[t][2] ELSE str_types[t][2]
       IN  CHOOSE x \in
             {CompactFrom(m, t, c + 1) :
                m \in {IF Contains(message, tp) THEN Replace(message, tp, r)
                       ELSE message}} : TRUE

\* Beautifier._compact_typedefs
compact_typedefs(message) == CompactFrom(message, 1, 1)

\* the inner loop of Beautifier._parse_templates over the (full, small) pairs
RECURSIVE ReplacePairs(_, _, _, _)
ReplacePairs(message, pairs, tp, i) ==
  IF i > Len(pairs) THEN message
  ELSE CHOOSE r \in
         {ReplacePairs(m, pairs, tp, i + 1) :
            m \in {Replace(message, Replace(pairs[i][1], "%s", tp),
                           Replace(pairs[i][2], "%s", tp))}} : TRUE

\* the outer loop of Beautifier._parse_templates, from the i-th container of
\* the iteration order on
RECURSIVE TemplatesFrom(_, _, _)
TemplatesFrom(message, order, i) ==
  IF i > Len(order) THEN message
  ELSE LET container == order[i]
           begin == (Find(message, container, 1) - 1) + Len(container) + 1
           tp == next_token(message, begin)
       IN  CHOOSE r \in
             {TemplatesFrom(m, order, i + 1) :
                m \in {IF Contains(message, container) /\ tp # << >> /\ tp[1] # ""
                       THEN ReplacePairs(message, replacements[container], tp[1], 1)
                       ELSE message}} : TRUE

\* Beautifier._parse_templates
parse_templates(message, order) == TemplatesFrom(message, order, 1)

\* the loop of build over code["with_tokens"]
RECURSIVE ApplyTokens(_, _, _)
ApplyTokens(formatted, tokens, i) ==
  IF i > Len(tokens) THEN formatted
  ELSE CHOOSE r \in
         {ApplyTokens(f, tokens, i + 1) :
            f \in {Replace(formatted, tokens[i][1], tokens[i][2])}} : TRUE

\* while "> >" in s: s = s.replace("> >", ">>")
RECURSIVE CollapseAngles(_)
CollapseAngles(s) ==
  IF Contains(s, "> >")
  THEN CHOOSE r \in {CollapseAngles(t) : t \in {Replace(s, "> >", ">>")}} : TRUE
  ELSE s

\* re.sub(self._line_groups["sys_file"], "", s), from position i on
RECURSIVE SubSysFile(_, _)
SubSysFile(s, i) ==
  LET p == First({k \in i..Len(s) : SysFileEnd(s, k) # 0}, Len(s) + 1) IN
  IF p > Len(s) THEN Slice(s, i, Len(s))
  ELSE Slice(s, i, p - 1)
       \o (CHOOSE r \in {SubSysFile(s, q) : q \in {SysFileEnd(s, p)}} : TRUE)

\* the statements of build under "if self._level >= Beautifier.LV_NORMAL"
FormatNormal(code, formatted, order) ==
  LET f1 == IF "with_tokens" \in DOMAIN code
            THEN Strip(SubWithStmt(ApplyTokens(formatted, code.with_tokens, 1), 1))
            ELSE formatted
      f2 == CollapseAngles(f1)
      f3 == Replace(Replace(f2, "std::", ""), "__gnu_cxx::", "")
  IN  parse_templates(compact_typedefs(f3), order)

\* IsModerate with "==" for ">=": the rules of Moderate at that level only
IsModerateOnly(level) == level = LV_MODERATE

\* "self._level >= Beautifier.LV_MODERATE"
IsModerate(level) == level >= LV_MODERATE

\* code["formatted"] after the statements of the loop body of build up to
\* the end of those for LV_NORMAL
Formatted(level, order, code) ==
  IF level >= LV_NORMAL
  THEN FormatNormal(code, IF "formatted" \in DOMAIN code THEN code.formatted
                          ELSE code.raw, order)
  ELSE IF "formatted" \in DOMAIN code THEN code.formatted ELSE code.raw

\* the rest of the loop body, for the formatted code and for self._result as
\* re.sub has left it: returned tells that the body left build by "return ''"
BuildCode(level, code, formatted, result) ==
  IF IsModerate(level) /\ StartsWith(result, "error: ")
  THEN [returned |-> TRUE, result |-> result,
        code |-> SetKey(code, "formatted", formatted)]
  ELSE Bind(IF IsModerate(level)
            THEN Replace(Replace(formatted, "boost::detail::", ""), "boost::", "")
            ELSE formatted,
            LAMBDA f :
              [returned |-> FALSE, result |-> Replace(result, code.raw, f),
               code |-> SetKey(code, "formatted", f)])

\* the loop body of build for one code
BuildStep(level, order, code, result) ==
  Bind(Formatted(level, order, code),
       LAMBDA formatted :
         Bind(IF IsModerate(level) THEN SubSysFile(result, 1) ELSE result,
              LAMBDA r1 : BuildCode(level, code, formatted, r1)))

\* the loop of build over the code list, from the i-th code on
RECURSIVE BuildLoop(_, _, _, _, _)
BuildLoop(level, order, codelist, result, i) ==
  IF i > Len(codelist)
  THEN [returned |-> FALSE, result |-> result, codelist |-> codelist]
  ELSE Bind(BuildStep(level, order, codelist[i], result),
            LAMBDA step :
              IF step.returned
              THEN [returned |-> TRUE, result |-> step.result,
                    codelist |-> [codelist EXCEPT ![i] = step.code]]
              ELSE BuildLoop(level, order, [codelist EXCEPT ![i] = step.code],
                             step.result, i + 1))

(***************************************************************************)
(* self._wrapper.fill: textwrap.TextWrapper(width, subsequent_indent =      *)
(* "    ") with the defaults of the library, for text without tabs and     *)
(* without hyphens (the library also breaks after a hyphen inside a word). *)
(***************************************************************************)
subsequent_indent == "    "

\* _munge_whitespace: every whitespace character becomes a space
MungeWhitespace(s) ==
  Replace(Replace(Replace(Replace(s, "\t", " "), "\n", " "), "\r", " "), "\f", " ")

\* position e ends a chunk of the text: a maximal run of spaces or of other
\* characters
ChunkEnd(s, e) ==
  e = Len(s) \/ ((Ch(s, e) = " ") # (Ch(s, e + 1) = " "))

\* the loop of _wrap_chunks from position p of the text on.  A line takes the
\* chunks that fit in width; a chunk longer than width is cut to fill the line
\* (_handle_long_word); a run of spaces is dropped from the start of a line
\* after the first and from the end of any line.
RECURSIVE WrapFrom(_, _, _)
WrapFrom(s, p0, lines) ==
  LET indent == IF Len(lines) > 0 THEN subsequent_indent ELSE ""
      width == Width - Len(indent)
      p == IF Len(lines) > 0 /\ Ch(s, p0) = " " THEN p0 + Run(s, p0, {" "}) ELSE p0
      e == Last({k \in p..(p + width - 1) : k <= Len(s) /\ ChunkEnd(s, k)}, p - 1)
      ce == First({k \in (e + 1)..Len(s) : ChunkEnd(s, k)}, Len(s) + 1)
      long == e < Len(s) /\ ce - e > width
      stop == IF long THEN p + width - 1 ELSE e
      cut == IF long
             THEN IF stop = e \/ Ch(s, e + 1) = " " THEN e ELSE stop
             ELSE IF Ch(s, e) = " "
             THEN Last({k \in p..e : Ch(s, k) # " "}, p - 1)
             ELSE e
  IN  IF p > Len(s) THEN lines
      ELSE CHOOSE r \in
             {WrapFrom(s, q, l) :
                q \in {stop + 1},
                l \in {IF cut >= p THEN Append(lines, indent \o SubSeq(s, p, cut))
                       ELSE lines}} : TRUE

\* self._wrapper.fill(text)
fill(text) == Join("\n", WrapFrom(MungeWhitespace(text), 1, << >>))

\* Suppress with the prefix "from" alone
SuppressFrom(self, attributes, result) ==
  [ret |-> IF StartsWith(result, "from") THEN "" ELSE result,
   self |-> [self EXCEPT !.attributes = attributes, !.result = result]]

\* the statements of build after the loop, for the stripped and wrapped
\* result
Suppress(self, attributes, result) ==
  [ret |-> IF \E prefix \in {"from", "note: previous definition",
                             "In file included from"} :
                StartsWith(result, prefix)
           THEN "" ELSE result,
   self |-> [self EXCEPT !.attributes = attributes, !.result = result]]

\* the statements of build after the first, given what the loop has left
AfterLoop(self, loop) ==
  IF loop.returned
  THEN [ret |-> "",
        self |-> [self EXCEPT !.attributes["message"].codelist = loop.codelist,
                              !.result = loop.result]]
  ELSE Bind(IF self.wrapper THEN fill(Strip(loop.result)) ELSE Strip(loop.result),
            LAMBDA wrapped :
              Suppress(self,
                       [self.attributes EXCEPT !["message"].codelist = loop.codelist],
                       wrapped))

\* Beautifier.build on the instance state self: ret is the string it returns,
\* self the instance state it leaves
build(self, order) ==
  IF self.level = LV_NONE THEN [ret |-> self.result, self |-> self]
  ELSE Bind(BuildLoop(self.level, order, self.attributes["message"].codelist,
                      self.result, 1),
            LAMBDA loop : AfterLoop(self, loop))

(***************************************************************************)
(* errmsg.py and colors: the decoration of a line                          *)
(***************************************************************************)
\* The escape codes of colors/_posix_codes.py, which is not among the sources
\* at hand: each code is kept as the name errmsg.py gives it.
Codes == [RESET |-> "RESET", RED |-> "RED", BROWN |-> "BROWN",
          GREEN |-> "GREEN", BLUE |-> "BLUE"]

\* Builder._build_code for a list of one code
build_code(code) == ESC \o "[" \o code \o "m"

\* errmsg.highlight_line: the posix Builder puts the color at index 0 and the
\* reset at index len(string); the fake Builder returns the string unchanged
highlight_line(osname, string, code) ==
  IF osname = "posix"
  THEN IF Len(string) = 0
       THEN build_code(code \o ";" \o Codes.RESET)
       ELSE build_code(code) \o string \o build_code(Codes.RESET)
  ELSE string

\* color_types[type] of formatter.format applied to s
color_func(osname, type, s) ==
  CASE type = LT_ERROR -> highlight_line(osname, s, Codes.RED)
    [] type = LT_WARNING -> highlight_line(osname, s, Codes.GREEN)
    [] type = LT_MESSAGE -> highlight_line(osname, s, Codes.BROWN)
    [] type = LT_NOTE -> highlight_line(osname, s, Codes.BLUE)
    [] OTHER -> s

(***************************************************************************)
(* gcc/formatter.py: format                                                *)
(***************************************************************************)
\* os.linesep
linesep(osname) == IF osname = "posix" THEN "\n" ELSE "\r\n"

\* output.splitlines(), from position i on, for text whose line boundaries are
\* "\n", "\r\n" and "\r"
RECURSIVE SplitLinesFrom(_, _)
SplitLinesFrom(s, i) ==
  LET p == First({k \in i..Len(s) : Ch(s, k) \in {"\n", "\r"}}, Len(s) + 1)
      n == IF StartsAt(s, p, "\r\n") THEN p + 2 ELSE p + 1
  IN  IF i > Len(s) THEN << >>
      ELSE << Slice(s, i, p - 1) >>
           \o (CHOOSE r \in {SplitLinesFrom(s, q) : q \in {n}} : TRUE)

splitlines(s) == SplitLinesFrom(s, 1)

\* for line in open(...): the lines of the file, each with its line end
file_lines(s) == [k \in 1..Len(splitlines(s)) |-> splitlines(s)[k] \o "\n"]

\* The first three statements of the loop body of format on one line:
\*   b = Beautifier(line, level, wrap = '-w' in sys.argv)
\*   attribs = b.parse_line()
\*   result_line = b.build()
\* exc names the exception that leaves the loop ("" if none), b is the
\* instance as the statements leave it
process_line(line, level, wrap, order) ==
  Bind(parse_line("Beautifier", NewBeautifier(line, level, wrap), ""),
       LAMBDA parsed :
         IF parsed.exc # ""
         THEN [exc |-> parsed.exc,
               b |-> [NewBeautifier(line, level, wrap) EXCEPT
                        !.line = parsed.self.line,
                        !.attributes = parsed.self.attributes],
               result_line |-> ""]
         ELSE Bind(build([NewBeautifier(line, level, wrap) EXCEPT
                            !.line = parsed.self.line,
                            !.attributes = parsed.self.attributes], order),
                   LAMBDA built :
                     [exc |-> "", b |-> built.self, result_line |-> built.ret]))

\* The rest of the loop body of format, for what process_line gives:
\*   if result_line:
\*     if color: result_line = color_func(result_line)
\*     result.append(result_line)
\* where color_func is color_types[attribs["type"]] unless "-C" is in sys.argv
emit(result, r, color, argv, osname) ==
  IF r.result_line = "" THEN result
  ELSE IF color
  THEN Append(result,
              color_func(osname,
                         IF "-C" \notin argv THEN r.b.attributes["type"] ELSE None,
                         r.result_line))
  ELSE Append(result, r.result_line)

(***************************************************************************)
(* The programs: format(output, color, level) of gcc/formatter.py, run      *)
(* once and then once more on the text it returned, and the two loops of   *)
(* the docstring of class Parser, one reusing an instance ("reuse") and    *)
(* one constructing an instance per line ("fresh").                        *)
(***************************************************************************)
VARIABLES
  scenario,     \* "format", "reuse" or "fresh": the program that runs
  level,        \* the level parameter of format
  color,        \* the color parameter of format
  argv,         \* the options of sys.argv that format reads
  osname,       \* os.name
  order,        \* the order in which the interpreter iterates _replacements
  output,       \* the text given to the program
  idx,          \* the number of lines the loop has taken
  b,            \* the local b of format: << >> while unbound
  result_line,  \* the local result_line of format, before decoration
  result,       \* the local result of format
  text,         \* the string format returned
  previous,     \* << t >> when output is the text t of an earlier call
  p,            \* the local p of the Parser loops: << >> while unbound
  attributes,   \* the list attributes of the Parser loops
  pc,           \* "loop", "returned", "done" or "raised"
  exc           \* the exception that ended the program, "" if none

vars == << scenario, level, color, argv, osname, order, output, idx, b,
           result_line, result, text, previous, p, attributes, pc, exc >>

\* the longest input, in lines
MaxLines == 2

ErrorLine == "foo.cpp:10:5: error: #x$ was not declared in this scope"
FunctionLine == "foo.cpp: In function #int main()$:"
NoMessageLine == "foo.cpp:10"
CollectLine == "collect2: ld returned 1 exit status"
WithLine == "Type<T> [with T = int]"
WithLine2 == "Type<T, U> [with T = int, U = char]"
MalformedLine == "X<T> [with T = int, U]"
QueueLine == "queue<int, deque<int, allocator<int>>>"
StackLine == "stack<int, deque<int, allocator<int>>>"
VectorLine == "vector<int, allocator<int>>"
PrefixLine == "sstd::td::x"
SysNoteLine ==
  "/usr/include/c++/4.4/bits/stl_vector.h:733: note: candidates are: void push_back(const int&)"
SysErrorLine == "/usr/include/c++/4.4/bits/stl_vector.h:733: error: foo bar"
SysBareErrorLine == "/usr/include/x.h:12: error: "
BoostLine ==
  "foo.cpp:3: error: no match for #boost::shared_ptr<std::vector<int, std::allocator<int> > >$ in this call"

ColonLine == "foo.cpp:10:5: error: expected #:$ before #;$ token"
IncludedLine == "In file included from foo.cpp:3:"
FromLine == "                 from bar.h:2,"
SysPreviousLine == "/usr/include/x.h:12: note: previous definition of #x$ was here"
\* the lines given to the programs
Lines ==
  { "", ErrorLine, FunctionLine, NoMessageLine, CollectLine, WithLine,
    WithLine2, MalformedLine, QueueLine, StackLine, VectorLine, PrefixLine,
    SysNoteLine, SysErrorLine, SysBareErrorLine, BoostLine, ColonLine,
    IncludedLine, FromLine, SysPreviousLine }

\* the lines of the inputs of more than one line
StreamLines == { ErrorLine, FunctionLine, NoMessageLine }

RECURSIVE SeqsOf(_, _)
SeqsOf(S, n) ==
  IF n = 0 THEN { << >> }
  ELSE { Append(q, l) : q \in SeqsOf(S, n - 1), l \in S }

\* the text of a file of the given lines
RECURSIVE TextOf(_)
TextOf(ls) == IF Len(ls) = 0 THEN "" ELSE ls[1] \o "\n" \o TextOf(Tail(ls))

Inputs ==
  { TextOf(<< l >>) : l \in Lines }
    \cup UNION { { TextOf(q) : q \in SeqsOf(StreamLines, n) } : n \in 2..MaxLines }

Levels == { LV_NONE, LV_NORMAL, LV_MODERATE, LV_HIGH, LV_ALL }

InsertionOrder == << "vector", "list", "queue", "deque", "stack", "set" >>

\* The calls of format explored: every level, wrap setting and iteration
\* order with and without color, and the "-C" option and the fake Builder
\* at the default level.
Calls ==
  { c \in [level : Levels, color : BOOLEAN, argv : SUBSET {"-w", "-C"},
           osname : {"posix", "nt"}, order : DictOrders] :
      \/ "-C" \notin c.argv /\ c.osname = "posix"
      \/ c.level = LV_NORMAL /\ c.color /\ "-w" \notin c.argv
           /\ c.order = InsertionOrder /\ ("-C" \in c.argv) # (c.osname = "nt") }

Init ==
  /\ scenario \in {"format", "reuse", "fresh"}
  /\ \E c \in Calls :
       /\ scenario # "format" =>
            c = [level |-> LV_NORMAL, color |-> TRUE, argv |-> {},
                 osname |-> "posix", order |-> InsertionOrder]
       /\ level = c.level
       /\ color = c.color
       /\ argv = c.argv
       /\ osname = c.osname
       /\ order = c.order
  /\ output \in Inputs
  /\ idx = 0
  /\ b = << >>
  /\ result_line = ""
  /\ result = << >>
  /\ text = ""
  /\ previous = << >>
  /\ p = IF scenario = "reuse" THEN << NewParser("") >> ELSE << >>
  /\ attributes = << >>
  /\ pc = "loop"
  /\ exc = ""

\* for line in output.splitlines(): one turn of the loop of format
FormatLine ==
  /\ scenario = "format"
  /\ pc = "loop"
  /\ idx < Len(splitlines(output))
  /\ \E r \in {process_line(splitlines(output)[idx + 1], level,
                            "-w" \in argv, order)} :
       /\ b' = << r.b >>
       /\ IF r.exc # ""
          THEN /\ pc' = "raised"
               /\ exc' = r.exc
               /\ UNCHANGED << idx, result_line, result >>
          ELSE /\ idx' = idx + 1
               /\ result_line' = r.result_line
               /\ result' = emit(result, r, color, argv, osname)
               /\ UNCHANGED << pc, exc >>
  /\ UNCHANGED << scenario, level, color, argv, osname, order, output, text,
                  previous, p, attributes >>

\* return os.linesep.join(result)
FormatReturn ==
  /\ scenario = "format"
  /\ pc = "loop"
  /\ idx = Len(splitlines(output))
  /\ text' = Join(linesep(osname), result)
  /\ pc' = "returned"
  /\ UNCHANGED << scenario, level, color, argv, osname, order, output, idx, b,
                  result_line, result, previous, p, attributes, exc >>

\* format called again, with the same parameters, on the text it returned,
\* when that text is plain
FormatAgain ==
  /\ scenario = "format"
  /\ pc = "returned"
  /\ previous = << >>
  /\ ~(color /\ "-C" \notin argv /\ osname = "posix")
  /\ output' = text
  /\ previous' = << text >>
  /\ idx' = 0
  /\ b' = << >>
  /\ result_line' = ""
  /\ result' = << >>
  /\ text' = ""
  /\ pc' = "loop"
  /\ UNCHANGED << scenario, level, color, argv, osname, order, p, attributes, exc >>

\* attributes.append(p.parse_line(line)) on the one instance p = Parser():
\* every element of the list is the dictionary p._attributes itself
ParseLineReused ==
  /\ scenario = "reuse"
  /\ pc = "loop"
  /\ idx < Len(splitlines(output))
  /\ \E r \in {parse_line("Parser", p[1], file_lines(output)[idx + 1])} :
       /\ p' = << r.self >>
       /\ idx' = IF r.exc # "" THEN idx ELSE idx + 1
       /\ attributes' = [k \in 1..idx' |-> r.self.attributes]
       /\ pc' = IF r.exc # "" THEN "raised" ELSE pc
       /\ exc' = r.exc
  /\ UNCHANGED << scenario, level, color, argv, osname, order, output, b,
                  result_line, result, text, previous >>

\* p = Parser(line); attributes.append(p.parse_line())
ParseLineFresh ==
  /\ scenario = "fresh"
  /\ pc = "loop"
  /\ idx < Len(splitlines(output))
  /\ \E r \in {parse_line("Parser", NewParser(file_lines(output)[idx + 1]), "")} :
       /\ p' = << r.self >>
       /\ IF r.exc # ""
          THEN /\ pc' = "raised"
               /\ UNCHANGED << idx, attributes >>
          ELSE /\ idx' = idx + 1
               /\ attributes' = Append(attributes, r.self.attributes)
               /\ UNCHANGED pc
       /\ exc' = r.exc
  /\ UNCHANGED << scenario, level, color, argv, osname, order, output, b,
                  result_line, result, text, previous >>

\* the end of the loop over the lines in the two Parser programs
ParserDone ==
  /\ scenario \in {"reuse", "fresh"}
  /\ pc = "loop"
  /\ idx = Len(splitlines(output))
  /\ pc' = "done"
  /\ UNCHANGED << scenario, level, color, argv, osname, order, output, idx, b,
                  result_line, result, text, previous, p, attributes, exc >>

Next ==
  \/ FormatLine
  \/ FormatReturn
  \/ FormatAgain
  \/ ParseLineReused
  \/ ParseLineFresh
  \/ ParserDone

Spec == Init /\ [][Next]_vars

(***************************************************************************)
(* The properties                                                          *)
(***************************************************************************)
\* the line the loop has just taken, once it has taken one
Taken == splitlines(output)[idx]

\* the attributes a record returned by parse_line shows, << >> for a key the
\* dictionary does not have
Shown(a) ==
  [k \in {"type", "file", "line", "column", "sys_file", "message"} |->
     IF k \in DOMAIN a THEN << a[k] >> ELSE << >>]

\* what Parser(line).parse_line() returns on a fresh instance
FreshRecord(line) == parse_line("Parser", NewParser(line), "").self.attributes

\* C1: Parser.parse_line is total: the loop that constructs a Parser for each
\* line and calls parse_line never ends by an exception, whatever the lines.
C1_ParseLineTotal == scenario = "fresh" => pc # "raised"

\* C2: the two usages of Parser give identical results: when the loop that
\* reuses one instance is done, the k-th record of its list shows the same
\* attributes as Parser(line).parse_line() on the k-th line.
C2_ReuseSameAsFresh ==
  scenario = "reuse" /\ pc = "done" =>
    \A k \in 1..Len(attributes) :
      Shown(attributes[k]) = Shown(FreshRecord(file_lines(output)[k]))

\* C3: at level Normal build resolves a with-clause: "Type<T> [with T = int]"
\* becomes "Type<int>" and "Type<T, U> [with T = int, U = char]" becomes
\* "Type<int, char>".
C3_WithClauseResolved ==
  scenario = "format" /\ level = LV_NORMAL /\ idx > 0 =>
    /\ Taken = WithLine => result_line = "Type<int>"
    /\ Taken = WithLine2 => result_line = "Type<int, char>"

\* C4: an entry of a with-clause without exactly one "=" is skipped: the line
\* is processed to its end and the well-formed entries are the with_tokens of
\* the code.
C4_MalformedEntrySkipped ==
  scenario = "format" =>
    /\ idx < Len(splitlines(output)) /\ splitlines(output)[idx + 1] = MalformedLine
         => pc # "raised"
    /\ idx > 0 /\ Taken = MalformedLine
         => b[1].attributes["message"].codelist[1].with_tokens = << << "T", "int" >> >>

\* C5: beautification is idempotent: format applied, without wrapping, to the
\* plain text it has returned returns that text.
C5_Idempotent ==
  scenario = "format" /\ previous # << >> /\ pc = "returned" /\ "-w" \notin argv =>
    text = previous[1]

\* C6: at level Moderate a line with a system-file prefix is suppressed only
\* if what remains after the prefix is exactly "error: "; with further text
\* the line stays.
C6_SuppressedOnlyIfBareError ==
  scenario = "format" /\ level = LV_MODERATE /\ idx > 0 /\ MatchSysFile(Taken) =>
    (result_line = "" => SubSysFile(Taken, 1) = "error: ")

\* C7: at levels High and All build returns, for every line and wrap setting,
\* the string it returns at level Moderate.
C7_HighAllSameAsModerate ==
  scenario = "format" /\ level \in {LV_HIGH, LV_ALL} /\ idx > 0 =>
    result_line = process_line(Taken, LV_MODERATE, "-w" \in argv, order).result_line

\* a line with a system-file prefix has gone through build at level All, which
\* has removed the prefix and kept the note
C7_Witness ==
  /\ scenario = "format"
  /\ level = LV_ALL
  /\ idx > 0
  /\ Taken = SysNoteLine
  /\ "-w" \notin argv
  /\ result_line = "note: candidates are: void push_back(const int&)"

\* C8: at level Normal one pass of build turns the fully defaulted form of a
\* container into container<T>: vector<T, allocator<T>>, and the adaptors
\* stack and queue over deque<T, allocator<T>>.
C8_DefaultArgumentsElided ==
  scenario = "format" /\ level = LV_NORMAL /\ idx > 0 =>
    /\ Taken = VectorLine => result_line = "vector<int>"
    /\ Taken = StackLine => result_line = "stack<int>"
    /\ Taken = QueueLine => result_line = "queue<int>"

\* C9: for a line of two segments or more whose segment 0 is "collect2",
\* parse_line gives the type Message and the message of the other segments.
C9_CollectMessage ==
  scenario = "fresh" /\ idx > 0
    /\ Len(Segments(Strip(Taken))) >= 2 /\ Segments(Strip(Taken))[1] = "collect2" =>
      /\ attributes[idx]["type"] = LT_MESSAGE
      /\ attributes[idx]["message"].raw = Join(": ", Drop(Segments(Strip(Taken)), 1))

\* what format emits for the k-th line of the input taken alone
RECURSIVE Alone(_)
Alone(k) ==
  IF k = 0 THEN << >>
  ELSE Alone(k - 1)
       \o emit(<< >>,
               process_line(splitlines(output)[k], level, "-w" \in argv, order),
               color, argv, osname)

\* C10: format emits, in the order of the input, the non-empty results of
\* build of the lines, each as for the line alone: it ends by returning, and
\* with that list.
C10_InOrderIndependent ==
  scenario = "format" =>
    /\ pc # "raised"
    /\ pc = "returned" => result = Alone(Len(splitlines(output)))

\* the lines of the forms FILE:LINE:COL: error: MSG and FILE:LINE: error: MSG
\* among the inputs, with the file, line and column they name (-1: no column)
ErrorForms ==
  { [text |-> ErrorLine, file |-> "foo.cpp", line |-> 10, column |-> 5],
    [text |-> ColonLine, file |-> "foo.cpp", line |-> 10, column |-> 5],
    [text |-> BoostLine, file |-> "foo.cpp", line |-> 3, column |-> -1] }

\* MSG: the text of the line after its "error: "
MsgOf(line) == Slice(line, Find(line, "error: ", 1) + Len("error: "), Len(line))

\* the texts between the quotes of the quoted spans of msg, in order
QuotedIn(msg) ==
  [i \in 1..Len(CodeSpans(msg, 1)) |->
     SubSeq(CodeSpans(msg, 1)[i], 2, Len(CodeSpans(msg, 1)[i]) - 1)]

\* C11: for a line FILE:LINE:COL: error: MSG, and FILE:LINE: error: MSG,
\* parse_line returns the type Error, the file, the line, the column (-1 if
\* none), the message raw MSG and one code for each quoted span of MSG, in
\* order, holding the text between the quotes.
C11_ErrorLineParsed ==
  scenario = "fresh" /\ idx > 0 =>
    \A f \in ErrorForms :
      Taken = f.text =>
        /\ attributes[idx]["type"] = LT_ERROR
        /\ attributes[idx]["file"] = f.file
        /\ attributes[idx]["line"] = f.line
        /\ attributes[idx]["column"] = f.column
        /\ attributes[idx]["message"].raw = MsgOf(f.text)
        /\ [i \in 1..Len(attributes[idx]["message"].codelist) |->
              attributes[idx]["message"].codelist[i].raw] = QuotedIn(MsgOf(f.text))

(***************************************************************************)
(* Parser._next_token on its own: the program calls                        *)
(* self._next_token(line, begin) once.  Here output is the argument line,  *)
(* idx the argument begin, and result is << >> until the call returns and  *)
(* then << v >> for the value v it returned: v is << t >> for the token t  *)
(* and << >> for Python's None.                                            *)
(***************************************************************************)
\* the longest line given to _next_token, in characters
TokenLen == 3
\* the largest begin given to _next_token
MaxBegin == 1
\* the characters of the lines: the delimiters, the openers, the closers, a
\* blank and a letter
TokenChars == {",", "=", "<", "[", "{", "(", ">", "]", "}", ")", " ", "a"}
\* the longest line of nested brackets given to _next_token, in characters
NestLen == 5
\* the characters of those lines: two openers, their closers and a delimiter
NestChars == {",", "<", "(", ">", ")"}

RECURSIVE StringsOf(_, _)
StringsOf(S, n) ==
  IF n = 0 THEN { "" }
  ELSE StringsOf(S, n - 1)
       \cup { s \o c : s \in { t \in StringsOf(S, n - 1) : Len(t) = n - 1 }, c \in S }

TokenInit ==
  /\ scenario = "token"
  /\ level = LV_NORMAL
  /\ color = TRUE
  /\ argv = {}
  /\ osname = "posix"
  /\ order = InsertionOrder
  /\ output \in StringsOf(TokenChars, TokenLen) \cup StringsOf(NestChars, NestLen)
  /\ idx \in 0..MaxBegin
  /\ b = << >>
  /\ result_line = ""
  /\ result = << >>
  /\ text = ""
  /\ previous = << >>
  /\ p = << >>
  /\ attributes = << >>
  /\ pc = "loop"
  /\ exc = ""

\* self._next_token(line, begin)
NextToken ==
  /\ scenario = "token"
  /\ pc = "loop"
  /\ result' = << next_token(output, idx) >>
  /\ pc' = "returned"
  /\ UNCHANGED << scenario, level, color, argv, osname, order, output, idx, b,
                  result_line, text, previous, p, attributes, exc >>

TokenNext == NextToken

TokenSpec == TokenInit /\ [][TokenNext]_vars

\* the closing character of an opening character
CloserOf(o) ==
  CASE o = "<" -> ">" [] o = "[" -> "]" [] o = "{" -> "}" [] o = "(" -> ")"

\* the counter of the opener o when the scan comes to position k of line,
\* having started after begin: the o met less the closers of o met
CounterAt(line, begin, o, k) ==
  Cardinality({j \in (begin + 1)..(k - 1) : Ch(line, j) = o})
    - Cardinality({j \in (begin + 1)..(k - 1) : Ch(line, j) = CloserOf(o)})

\* position k ends the scan: a delimiter met while the four counters are
\* zero, or a closer whose own counter is zero
EndsScan(line, begin, k) ==
  \/ /\ Ch(line, k) \in {",", "="}
     /\ \A o \in {"<", "[", "{", "("} : CounterAt(line, begin, o, k) = 0
  \/ \E o \in {"<", "[", "{", "("} :
       /\ Ch(line, k) = CloserOf(o)
       /\ CounterAt(line, begin, o, k) = 0

\* the first position that ends the scan, Len(line) + 1 if there is none
ScanEnd(line, begin) ==
  First({k \in (begin + 1)..Len(line) : EndsScan(line, begin, k)}, Len(line) + 1)

\* C12: _next_token(line, begin) returns the trimmed text from begin up to the
\* first "," or "=" met while the four counters are zero; it returns no token
\* once a closer finds its own counter at zero, and no token at the end of
\* the string; a closer counts against its own opener only.
C12_NextToken ==
  scenario = "token" /\ pc = "returned" =>
    result[1] =
      IF ScanEnd(output, idx) <= Len(output)
           /\ Ch(output, ScanEnd(output, idx)) \in {",", "="}
      THEN << Strip(Slice(output, idx + 1, ScanEnd(output, idx) - 1)) >>
      ELSE << >>

\* _next_token has returned the token "(<)>" of the line "(<)>,": the closer
\* ")" came while "<" was the last opener and counted against "(", and the
\* delimiter was met with the counters back at zero
C12_Witness ==
  /\ scenario = "token"
  /\ pc = "returned"
  /\ output = "(<)>,"
  /\ idx = 0
  /\ result = << << "(<)>" >> >>

\* the prefixes of the lines build drops
DroppedPrefixes == {"from", "note: previous definition", "In file included from"}

\* C13: at every level from Normal upward build returns "" whenever
\* self._result, as rewriting, stripping and wrapping have left it, starts with
\* "from", "note: previous definition" or "In file included from"; at level
\* None build returns the line unchanged.
C13_PrefixedLineDropped ==
  scenario = "format" /\ idx > 0 =>
    /\ level >= LV_NORMAL
         /\ (\E prefix \in DroppedPrefixes : StartsWith(b[1].result, prefix))
         => result_line = ""
    /\ level = LV_NONE => result_line = Taken

\* build at level Moderate has removed the system-file prefix of a line, which
\* left a text that starts with "note: previous definition", and has returned ""
C13_Witness ==
  /\ scenario = "format"
  /\ level = LV_MODERATE
  /\ idx > 0
  /\ Taken = SysPreviousLine
  /\ StartsWith(b[1].result, "note: previous definition")
  /\ result_line = ""
====
